---- MODULE Spec2Model ----
(***************************************************************************)
(* Model of the PDF-to-video page (src/app/page.tsx, component Home).      *)
(*                                                                         *)
(* The component is a set of event handlers over React state.  JavaScript  *)
(* runs one task at a time, so every action below is one task of the event *)
(* loop: the synchronous part of a handler up to its next await, followed  *)
(* by the render React commits for the batched state updates and by the    *)
(* canvas-paint effect of that render.  The awaits (document parsing, page *)
(* rendering, the per-page timer), the recorder's stop event and the image *)
(* load events are the points where other tasks may interleave.            *)
(***************************************************************************)
EXTENDS Integers, Sequences, FiniteSets, TLC

\* ---------------------------------------------------------------- bounds
\* Largest page count of a document the user may choose.
MaxPages == 3
\* Number of times the record button may be pressed in one behaviour.
MaxRuns == 2
\* Names of the PDF files the user may choose, as sequences of characters:
\* "a.pdf" and "a.pdf.PDF".  The declared type, not the name, decides
\* whether a file is accepted.
FileNames ==
    { <<"a", ".", "p", "d", "f">>,
      <<"a", ".", "p", "d", "f", ".", "P", "D", "F">> }

\* ---------------------------------------------------------------- values
\* e.target.files?.[0] when the selection is empty (undefined).
NoFile == [name |-> << >>, type |-> "", numPages |-> 0]

\* Files whose declared type is application/pdf; numPages is pdf.numPages of
\* the parsed document.
PdfFiles == [name : FileNames, type : {"application/pdf"}, numPages : 1..MaxPages]

\* A file of another declared type.
OtherFiles ==
    {[name |-> <<"n", ".", "t", "x", "t">>, type |-> "text/plain", numPages |-> 0]}

\* Whatever the change event of the file input may carry.
Selections == PdfFiles \cup OtherFiles \cup {NoFile}

\* The blank canvas (nothing painted yet).
NoImage == [doc |-> << >>, page |-> 0]

\* The data URL of source page i of a file: page.render followed by
\* canvas.toDataURL.
Rasterize(file, i) == [doc |-> file.name, page |-> i]

\* useState<string | null>(null) of videoUrl.
NullUrl == [null |-> TRUE, run |-> 0, blob |-> << >>]

\* URL.createObjectURL(new Blob(chunks)): a fresh URL, one per run.
CreateObjectURL(run, chunks) == [null |-> FALSE, run |-> run, blob |-> chunks]

\* A duration in half-second steps, or NaN.
Duration(h) == [nan |-> FALSE, halves |-> h]
NaN == [nan |-> TRUE, halves |-> 0]

\* useState(2) of pageTime: two seconds.
DefaultPageTime == Duration(4)

\* What the number input may hold when its change event fires: the min, max
\* and step attributes do not stop the user typing another number, and the
\* value of an emptied number input is the empty string.
TypedValues == {"", "0.5"}

\* parseFloat(e.target.value)
ParseFloat(v) ==
    CASE v = "" -> NaN
      [] v = "0.5" -> Duration(1)

\* A timer that ignores the duration.
TimerDelayZero(t) == 0

\* setTimeout(resolve, pageTime * 1000): the delay in half seconds; a NaN or
\* negative delay is taken as 0.
TimerDelay(t) == IF t.nan \/ t.halves < 0 THEN 0 ELSE t.halves

AlertInvalid == "Please upload a valid PDF file"
AlertError == "Error processing PDF file"

\* ------------------------------------------------------------- variables
VARIABLES
    \* React state (useState)
    pdfFile, pages, processing, recording, videoUrl, currentPage,
    \* refs: the state of the recorder mediaRecorderRef.current refers to
    \* ("null" when the ref is null), and chunksRef.current
    mediaRecorderRef, chunksRef,
    \* the drawing surface: what is painted on the mounted canvas, and the
    \* images whose load (img.src = ...) has not fired onload yet
    canvasShown, pendingLoads,
    \* handleFileUpload in flight: position, and its locals file, i, pageImages
    loadPc, file, loadI, pageImages,
    \* startRecording in flight: position, the pages of its closure, its loop
    \* variable i
    recPc, runPages, recI,
    \* history: runs started so far; recorders started and not yet stopped;
    \* cursor values set by the loop of the latest run and timers it has
    \* awaited to expiry; the canvas content when its recorder was started;
    \* runs over the current page sequence whose stop event was handled
    runCount, activeRecorders, cursorTrace, waits, startFrame, completedRuns,
    \* history: the handler that ran last, the file it was given (NoFile when
    \* it takes none), the alert it showed ("" when none)
    lastOp, lastFile, lastAlert,
    \* pageTime (useState), and the pageTime of the closure of startRecording
    pageTime, runPageTime,
    \* history: the sum of the delays of the timers expired since the latest
    \* recorder was started; the fragments that recorder has emitted; the
    \* a.download of the anchor the last handler clicked (empty when none)
    elapsed, emitted, download

reactState == <<pdfFile, pages, processing, recording, videoUrl, currentPage>>
refs == <<mediaRecorderRef, chunksRef>>
canvas == <<canvasShown, pendingLoads>>
loader == <<loadPc, file, loadI, pageImages>>
recorder == <<recPc, runPages, recI>>
history == <<runCount, activeRecorders, cursorTrace, waits, startFrame, completedRuns>>
event == <<lastOp, lastFile, lastAlert, download>>
extra == <<pageTime, runPageTime, elapsed, emitted>>
vars == <<reactState, refs, canvas, loader, recorder, history, event, extra>>

Init ==
    /\ pdfFile = NoFile
    /\ pages = << >>
    /\ processing = FALSE
    /\ recording = FALSE
    /\ videoUrl = NullUrl
    /\ currentPage = 0
    /\ mediaRecorderRef = "null"
    /\ chunksRef = << >>
    /\ canvasShown = NoImage
    /\ pendingLoads = {}
    /\ loadPc = "idle"
    /\ file = NoFile
    /\ loadI = 0
    /\ pageImages = << >>
    /\ recPc = "idle"
    /\ runPages = << >>
    /\ recI = 0
    /\ runCount = 0
    /\ activeRecorders = 0
    /\ cursorTrace = << >>
    /\ waits = 0
    /\ startFrame = NoImage
    /\ completedRuns = 0
    /\ lastOp = "init"
    /\ lastFile = NoFile
    /\ lastAlert = ""
    /\ pageTime = DefaultPageTime
    /\ runPageTime = DefaultPageTime
    /\ elapsed = 0
    /\ emitted = << >>
    /\ download = << >>

\* ------------------------------------------------------------ the render
\* The input disabled by processing alone.
InputEnabledWhileRecording == ~processing

\* <input type="file" ... disabled={processing || recording}>
InputEnabled == ~processing /\ ~recording

\* The record button shown whenever there are pages, also during a run.
RecordButtonVisibleWhileRecording == Len(pages) > 0

\* {pages.length > 0 && !recording && (... <button onClick={startRecording}>)}
RecordButtonVisible == Len(pages) > 0 /\ ~recording

\* {pages.length > 0 && (... <canvas ref={canvasRef}>)}: canvasRef.current is
\* non-null exactly when the last render had pages.
CanvasMounted(ps) == Len(ps) > 0

\* The canvas-paint effect, run after a render whose currentPage or pages
\* differ from the previous render's: it starts the load of the image at
\* the cursor; the image is painted when its onload fires (ImageLoaded).
PaintEffect(depsChanged, ps, cur, pending) ==
    IF depsChanged /\ CanvasMounted(ps) /\ Len(ps) > 0 /\ cur < Len(ps)
    THEN pending \cup {ps[cur + 1]}
    ELSE pending

\* ------------------------------------------------------- handleFileUpload
\* The validation without its type test.
IsAnyFile(f) == f # NoFile

\* if (!file || file.type !== 'application/pdf') is false
IsValidPdf(f) == f # NoFile /\ f.type = "application/pdf"

\* An acceptance that keeps the artifact of the previous file.
AcceptedVideoUrlKept == videoUrl

\* setVideoUrl(null) on acceptance
AcceptedVideoUrl == NullUrl

\* An acceptance that keeps the pages of the previous file.
AcceptedPagesKept == pages

\* setPages([]) on acceptance
AcceptedPages == << >>

\* An acceptance that does not mark the load as processing.
AcceptedProcessingUnset == FALSE

\* setProcessing(true) on acceptance
AcceptedProcessing == TRUE

\* The page loop with its bound off by one: the last page is not rendered.
PageLoopStopsEarly(i, n) == i < n

\* for (let i = 1; i <= pdf.numPages; i++): the loop goes on
PageLoopContinues(i, n) == i <= n

\* document.createElement('canvas').getContext('2d'): a freshly created
\* canvas has no context yet, so the 2d context is created and returned.
ContextOutcomes == {TRUE}

\* The change event of the file input: the handler up to its first await.
HandleFileUpload(f) ==
    /\ InputEnabled
    /\ lastOp' = "handleFileUpload"
    /\ download' = << >>
    /\ lastFile' = f
    /\ UNCHANGED extra
    /\ IF ~IsValidPdf(f)
       THEN /\ lastAlert' = AlertInvalid
            /\ UNCHANGED <<reactState, refs, canvas, loader, recorder, history>>
       ELSE /\ lastAlert' = ""
            /\ pdfFile' = f
            /\ videoUrl' = AcceptedVideoUrl
            /\ pages' = AcceptedPages
            /\ currentPage' = 0
            /\ processing' = AcceptedProcessing
            \* the canvas is unmounted with the empty page sequence; loads
            \* still pending paint the detached element
            /\ canvasShown' = NoImage
            /\ pendingLoads' = {}
            /\ loadPc' = "getDocument"
            /\ file' = f
            /\ loadI' = 0
            /\ pageImages' = << >>
            /\ completedRuns' = 0
            /\ UNCHANGED <<recording, refs, recorder, runCount, activeRecorders,
                           cursorTrace, waits, startFrame>>

\* The loop head of handleFileUpload with loop variable i and the images
\* pushed so far: await the next page, or setPages(pageImages) and the
\* finally block.
PageLoopHead(i, images) ==
    IF PageLoopContinues(i, file.numPages)
    THEN /\ loadPc' = "renderPage"
         /\ loadI' = i
         /\ pageImages' = images
         /\ UNCHANGED <<reactState, canvas>>
    ELSE /\ pages' = images
         /\ processing' = FALSE
         /\ loadPc' = "idle"
         /\ loadI' = i
         /\ pageImages' = images
         /\ pendingLoads' = PaintEffect(TRUE, images, currentPage, pendingLoads)
         /\ UNCHANGED <<pdfFile, recording, videoUrl, currentPage, canvasShown>>

\* file.arrayBuffer() and getDocument(...).promise resolve.
GetDocument ==
    /\ loadPc = "getDocument"
    /\ PageLoopHead(1, << >>)
    /\ lastOp' = "getDocument"
    /\ lastFile' = NoFile
    /\ download' = << >>
    /\ lastAlert' = ""
    /\ UNCHANGED <<file, refs, recorder, history, extra>>

\* pdf.getPage(i) and page.render(...).promise resolve: the image is pushed
\* when the canvas has a context, and the loop goes on.
RenderPage ==
    /\ loadPc = "renderPage"
    /\ \E context \in ContextOutcomes :
         PageLoopHead(loadI + 1,
                      IF context THEN Append(pageImages, Rasterize(file, loadI))
                                 ELSE pageImages)
    /\ lastOp' = "renderPage"
    /\ lastFile' = NoFile
    /\ download' = << >>
    /\ lastAlert' = ""
    /\ UNCHANGED <<file, refs, recorder, history, extra>>

\* A catch block that stores the images rendered before the failure.
LoadThrowsStoringPartial ==
    /\ loadPc \in {"getDocument", "renderPage"}
    /\ lastAlert' = AlertError
    /\ pages' = pageImages
    /\ processing' = FALSE
    /\ loadPc' = "idle"
    /\ lastOp' = "loadThrows"
    /\ lastFile' = NoFile
    /\ download' = << >>
    /\ UNCHANGED <<pdfFile, recording, videoUrl, currentPage, refs, canvas,
                   file, loadI, pageImages, recorder, history, extra>>

\* Any await of the try block rejects: catch (alert) and finally.
LoadThrows ==
    /\ loadPc \in {"getDocument", "renderPage"}
    /\ lastAlert' = AlertError
    /\ processing' = FALSE
    /\ loadPc' = "idle"
    /\ lastOp' = "loadThrows"
    /\ lastFile' = NoFile
    /\ download' = << >>
    /\ UNCHANGED <<pdfFile, pages, recording, videoUrl, currentPage, refs, canvas,
                   file, loadI, pageImages, recorder, history, extra>>

\* --------------------------------------------------------- startRecording
\* What canvas.captureStream, new MediaRecorder(stream, {mimeType:
\* 'video/webm;codecs=vp9'}) and mediaRecorder.start() may do: the
\* constructor throws NotSupportedError where the browser cannot record
\* that type, and start() may throw as well; neither is caught.
SetupOutcomes == {"ok", "constructorThrows", "startThrows"}

\* e.data.size of the one dataavailable event a recorder started without a
\* timeslice fires when it stops.
FragmentSizes == {0, 1}

\* The playback loop stopping one page early.
LoopStopsEarly(i, n) == i < n - 1

\* The playback loop going one index past the last page.
LoopContinuesPastEnd(i, n) == i <= n

\* for (let i = 0; i < pages.length; i++): the loop goes on
LoopContinues(i, n) == i < n

\* The playback loop advancing by two.
NextIndexSkips(i) == i + 2

\* i++
NextIndex(i) == i + 1

\* The loop head of startRecording with loop variable i, over the pages ps of
\* its closure, with `active` recorders running, `trace` the cursor values
\* the loop has set so far and cur the cursor as last set:
\* setCurrentPage(i) and the timer, or mediaRecorder.stop(), which makes the
\* recorder inactive at once and queues its dataavailable and stop events.
LoopHead(i, ps, active, trace, cur) ==
    /\ recI' = i
    /\ IF LoopContinues(i, Len(ps))
       THEN /\ currentPage' = i
            /\ cursorTrace' = Append(trace, i)
            /\ recPc' = "timer"
            /\ mediaRecorderRef' = "recording"
            /\ activeRecorders' = active
       ELSE /\ currentPage' = cur
            /\ cursorTrace' = trace
            /\ recPc' = "stopping"
            /\ mediaRecorderRef' = "inactive"
            /\ activeRecorders' = active - 1
    /\ pendingLoads' = PaintEffect(currentPage' # currentPage, pages, currentPage',
                                   pendingLoads)

\* A run that goes on appending to the chunks of the run before.
ResetChunksKept == chunksRef

\* chunksRef.current = []
ResetChunks == << >>

\* The click on the record button: the handler up to its first await.
StartRecording ==
    /\ RecordButtonVisible
    /\ runCount < MaxRuns
    /\ lastOp' = "startRecording"
    /\ lastFile' = NoFile
    /\ download' = << >>
    /\ lastAlert' = ""
    /\ IF ~CanvasMounted(pages) \/ Len(pages) = 0
       THEN UNCHANGED <<reactState, refs, canvas, recorder, history,
                        runPageTime, elapsed, emitted>>
       ELSE /\ recording' = TRUE
            /\ chunksRef' = ResetChunks
            /\ runPageTime' = pageTime
            /\ elapsed' = 0
            /\ emitted' = << >>
            /\ runCount' = runCount + 1
            /\ runPages' = pages
            /\ waits' = 0
            /\ \E outcome \in SetupOutcomes :
                 IF outcome = "ok"
                 THEN /\ startFrame' = canvasShown
                      /\ LoopHead(0, pages, activeRecorders + 1, << >>, 0)
                 ELSE /\ currentPage' = 0
                      /\ recPc' = "failed"
                      /\ recI' = 0
                      /\ cursorTrace' = << >>
                      /\ mediaRecorderRef' =
                           IF outcome = "startThrows" THEN "inactive"
                                                      ELSE mediaRecorderRef
                      /\ pendingLoads' = PaintEffect(currentPage # 0, pages, 0,
                                                     pendingLoads)
                      /\ UNCHANGED <<activeRecorders, startFrame>>
            /\ UNCHANGED <<pdfFile, pages, processing, videoUrl, canvasShown,
                           completedRuns>>
    /\ UNCHANGED <<loader, pageTime>>

\* The per-page timer expires: i++ and the loop head.
TimerFires ==
    /\ recPc = "timer"
    /\ waits' = waits + 1
    /\ elapsed' = elapsed + TimerDelay(runPageTime)
    /\ LoopHead(NextIndex(recI), runPages, activeRecorders, cursorTrace,
                currentPage)
    /\ lastOp' = "timerFires"
    /\ lastFile' = NoFile
    /\ download' = << >>
    /\ lastAlert' = ""
    /\ UNCHANGED <<pdfFile, pages, processing, recording, videoUrl, chunksRef,
                   canvasShown, loader, runPages, runCount, startFrame,
                   completedRuns, pageTime, runPageTime, emitted>>

\* e.data of the dataavailable event of the latest recorder.
Fragment(size) == [run |-> runCount, size |-> size]

\* mediaRecorder.ondataavailable
OnDataAvailable(size, chunks) ==
    IF size > 0 THEN Append(chunks, Fragment(size)) ELSE chunks

\* The run of the latest recorder went through every page of the current
\* sequence, one timer after each, before its stop event.
RunWentThrough ==
    /\ cursorTrace = [k \in 1..Len(pages) |-> k - 1]
    /\ waits = Len(pages)

\* The recorder's stop task: its dataavailable event, then
\* mediaRecorder.onstop.
OnStop ==
    /\ recPc = "stopping"
    /\ \E size \in FragmentSizes :
         /\ emitted' = Append(emitted, Fragment(size))
         /\ chunksRef' = OnDataAvailable(size, chunksRef)
         /\ videoUrl' = CreateObjectURL(runCount, chunksRef')
    /\ recording' = FALSE
    /\ recPc' = "idle"
    /\ completedRuns' = IF RunWentThrough THEN completedRuns + 1 ELSE completedRuns
    /\ lastOp' = "onstop"
    /\ lastFile' = NoFile
    /\ download' = << >>
    /\ lastAlert' = ""
    /\ UNCHANGED <<pdfFile, pages, processing, currentPage, mediaRecorderRef,
                   canvas, loader, runPages, recI, runCount, activeRecorders,
                   cursorTrace, waits, startFrame, pageTime,
                   runPageTime, elapsed>>

\* ------------------------------------------------------ the canvas effect
\* img.onload of a pending image: the canvas is resized and the image drawn.
ImageLoaded ==
    /\ \E img \in pendingLoads :
         /\ canvasShown' = img
         /\ pendingLoads' = pendingLoads \ {img}
    /\ lastOp' = "img.onload"
    /\ lastFile' = NoFile
    /\ download' = << >>
    /\ lastAlert' = ""
    /\ UNCHANGED <<reactState, refs, loader, recorder, history, extra>>

\* ------------------------------------------------------- the duration input
\* onChange of the number input, shown with the record button:
\* setPageTime(parseFloat(e.target.value)).
ChangePageTime(v) ==
    /\ RecordButtonVisible
    /\ pageTime' = ParseFloat(v)
    /\ lastOp' = "setPageTime"
    /\ lastFile' = NoFile
    /\ download' = << >>
    /\ lastAlert' = ""
    /\ UNCHANGED <<reactState, refs, canvas, loader, recorder, history,
                   runPageTime, elapsed, emitted>>

\* ---------------------------------------------------------- downloadVideo
\* The characters of '.pdf', of '_video.webm' and of 'undefined'.
PdfExtension == <<".", "p", "d", "f">>
VideoSuffix == <<"_", "v", "i", "d", "e", "o", ".", "w", "e", "b", "m">>
Undefined == <<"u", "n", "d", "e", "f", "i", "n", "e", "d">>

\* The places where pat occurs in s.
Occurrences(s, pat) ==
    {i \in 1..(Len(s) - Len(pat) + 1) : SubSeq(s, i, i + Len(pat) - 1) = pat}

\* The smallest of a non-empty set of numbers.
Least(S) == CHOOSE i \in S : \A j \in S : i <= j

\* String.prototype.replace(pat, r) with a string pattern: the first
\* occurrence of pat, compared character by character, is replaced.
StringReplace(s, pat, r) ==
    IF Occurrences(s, pat) = {}
    THEN s
    ELSE LET i == Least(Occurrences(s, pat))
         IN  SubSeq(s, 1, i - 1) \o r \o SubSeq(s, i + Len(pat), Len(s))

\* `${pdfFile?.name.replace('.pdf', '')}_video.webm`
DownloadName(f) ==
    (IF f = NoFile THEN Undefined ELSE StringReplace(f.name, PdfExtension, << >>))
        \o VideoSuffix

\* The click on the download button, shown while videoUrl is set.
DownloadVideo ==
    /\ videoUrl # NullUrl
    /\ download' = DownloadName(pdfFile)
    /\ lastOp' = "downloadVideo"
    /\ lastFile' = NoFile
    /\ lastAlert' = ""
    /\ UNCHANGED <<reactState, refs, canvas, loader, recorder, history,
                   pageTime, runPageTime, elapsed, emitted>>

\* ------------------------------------------------------------------ spec
Next ==
    \/ \E f \in Selections : HandleFileUpload(f)
    \/ GetDocument
    \/ RenderPage
    \/ LoadThrows
    \/ StartRecording
    \/ TimerFires
    \/ OnStop
    \/ ImageLoaded
    \/ \E v \in TypedValues : ChangePageTime(v)
    \/ DownloadVideo

Spec == Init /\ [][Next]_vars

\* ---------------------------------------------------------------- claims
\* A load has just finished without a thrown error.
LoadFinished == loadPc = "idle" /\ lastOp \in {"getDocument", "renderPage"}

RejectedSelection ==
    lastOp = "handleFileUpload"
        /\ (lastFile = NoFile \/ lastFile.type # "application/pdf")

\* C2: handleFileUpload given no file, or a file whose declared type is not
\* application/pdf, shows the alert and leaves pdfFile, pages, videoUrl,
\* currentPage, processing and recording unchanged.
C2_RejectionChangesNothing ==
    [][RejectedSelection' =>
          /\ lastAlert' = AlertInvalid
          /\ UNCHANGED <<pdfFile, pages, videoUrl, currentPage, processing,
                         recording>>]_vars

C2_Witness ==
    /\ RejectedSelection
    /\ lastFile.type = "text/plain"
    /\ lastAlert = AlertInvalid
    /\ videoUrl # NullUrl
    /\ Len(pages) > 1
    /\ currentPage > 0

UiState ==
    IF processing THEN "processing"
    ELSE IF recording THEN "recording"
    ELSE IF videoUrl # NullUrl THEN "done"
    ELSE IF Len(pages) > 0 THEN "ready"
    ELSE "idle"

\* The transitions the state machine of the specification lists.
ListedTransitions ==
    { <<"idle", "processing">>, <<"processing", "ready">>,
      <<"ready", "recording">>, <<"recording", "done">>,
      <<"processing", "idle">>, <<"ready", "idle">> }

\* The transitions of the code: a new file accepted in ready or done goes
\* straight to processing, and a run may be started again from done.
CodeTransitions ==
    { <<"idle", "processing">>, <<"processing", "ready">>,
      <<"ready", "recording">>, <<"recording", "done">>,
      <<"processing", "idle">>, <<"ready", "processing">>,
      <<"done", "processing">>, <<"done", "recording">> }

\* C4 as stated: the UI-visible state changes only along idle->processing,
\* processing->ready, ready->recording, recording->done, processing->idle
\* and ready->idle.
C4_OnlyListedTransitions ==
    [][UiState' # UiState => <<UiState, UiState'>> \in ListedTransitions]_vars

\* C4 as amended: the UI-visible state changes only along idle->processing,
\* processing->ready, ready->recording, recording->done, processing->idle
\* (only when the load throws), ready->processing and done->processing (a
\* new file is accepted) and done->recording (the run is started again).
C4_OnlyCodeTransitions ==
    [][UiState' # UiState =>
          /\ <<UiState, UiState'>> \in CodeTransitions
          /\ (UiState' = "idle" => lastOp' = "loadThrows")
          /\ (UiState' = "processing" => lastOp' = "handleFileUpload")]_vars

C4_Witness ==
    UiState = "recording" /\ videoUrl # NullUrl /\ lastOp = "startRecording"

\* C5: a file selection never begins while processing or recording is true:
\* no load starts while a load is in flight, and the page sequence is not
\* replaced while recording is true.
C5_NoSelectionMidOperation ==
    [][/\ lastOp' = "handleFileUpload" =>
              ~processing /\ ~recording /\ loadPc = "idle"
       /\ recording => pages' = pages]_vars

C5_Witness ==
    /\ recPc = "stopping"
    /\ recording
    /\ pages = runPages
    /\ pdfFile.name = <<"a", ".", "p", "d", "f", ".", "P", "D", "F">>
    /\ runCount = MaxRuns

\* C6: at most one capture session is active at a time: never two recorders
\* started and not stopped, and startRecording begins a run only when no
\* earlier run is still short of its onstop callback.
C6_OneCaptureSession ==
    [][/\ activeRecorders' <= 1
       /\ runCount' # runCount => recPc = "idle" /\ activeRecorders = 0]_vars

C6_Witness ==
    runCount = MaxRuns /\ activeRecorders = 1 /\ mediaRecorderRef = "recording"

\* C7: while recording is true the cursor is a valid index into the current
\* page sequence.
C7_CursorValidWhileRecording ==
    recording => 0 <= currentPage /\ currentPage < Len(pages)

C7_Witness ==
    recording /\ Len(pages) = MaxPages /\ currentPage = MaxPages - 1

\* The cursor values 0, 1, ..., n-1 in this order.
Ascending(n) == [k \in 1..n |-> k - 1]

\* C8: a run resets the cursor to 0, then sets it to 0, 1, ..., N-1, each
\* once and in this order, awaiting one timer after each value before the
\* next is set; the recorder is stopped after the N-th timer.
C8_CursorWalksEveryPageOnce ==
    /\ (lastOp = "startRecording" /\ recording) => currentPage = 0
    /\ recPc = "timer" =>
          /\ Len(cursorTrace) <= Len(pages)
          /\ cursorTrace = Ascending(Len(cursorTrace))
          /\ currentPage = cursorTrace[Len(cursorTrace)]
          /\ waits = Len(cursorTrace) - 1
    /\ recPc = "stopping" =>
          /\ cursorTrace = Ascending(Len(pages))
          /\ waits = Len(pages)

C8_Witness ==
    recPc = "stopping" /\ Len(pages) = MaxPages /\ waits = MaxPages

\* A step of an operation in flight: a load step, the timer, the stop task.
PendingStep == GetDocument \/ RenderPage \/ LoadThrows \/ TimerFires \/ OnStop

\* C9: no failure is fatal: the file input is enabled, or an operation in
\* flight still has a step to take that leads there; the page is never left
\* with the input disabled and nothing pending.
C9_NoFailureFatal == InputEnabled \/ ENABLED PendingStep

\* C10: when the recorder of a run is started the drawing surface shows no
\* page other than page one of the current sequence (it shows page one, or
\* is still blank), in the first run and in every later one.
C10_CaptureStartsAtPageOne ==
    recPc \in {"timer", "stopping"} => startFrame \in {NoImage, pages[1]}

\* The artifact shown is the one of the latest run.
ArtifactOfLatestRun == videoUrl # NullUrl /\ videoUrl.run = runCount

\* C11: the artifact of a run over N pages with per-page duration T is set
\* only after N per-page timers have expired one after another since the
\* recorder was started, so at least N x T has elapsed (counted in half
\* seconds, for every T that is a number).
C11_ArtifactAfterAllTimers ==
    ArtifactOfLatestRun =>
        /\ waits = Len(pages)
        /\ ~runPageTime.nan => elapsed >= Len(pages) * runPageTime.halves

C11_Witness ==
    /\ ArtifactOfLatestRun
    /\ Len(pages) = MaxPages
    /\ runPageTime = DefaultPageTime
    /\ elapsed = MaxPages * 4

\* A load has just failed after at least one page had been rendered.
FailedMidLoad == lastOp = "loadThrows" /\ Len(pageImages) >= 1

\* C12 as stated: after a rasterization failure that follows k >= 1 rendered
\* pages the user is notified, processing is cleared and the page sequence
\* holds the k images already produced.
C12_PartialResultsRetained ==
    FailedMidLoad =>
        lastAlert = AlertError /\ ~processing /\ pages = pageImages

\* C12 as amended: after such a failure the user is notified, processing is
\* cleared and the page sequence is empty: the k images were pushed to a
\* list local to the handler and are dropped.
C12_PartialResultsDiscarded ==
    FailedMidLoad =>
        lastAlert = AlertError /\ ~processing /\ pages = << >>

C12_Witness ==
    FailedMidLoad /\ Len(pageImages) = MaxPages - 1 /\ pages = << >> /\ runCount > 0

InRange(t) == ~t.nan /\ 1 <= t.halves /\ t.halves <= 20 /\ TimerDelay(t) = t.halves

\* C14: the per-page duration of every recording run lies between 0.5 and
\* 10 seconds; no edit of the duration control followed by startRecording
\* gives a run whose delay is out of that range, zero or not a number.
C14_DurationInRange ==
    recPc \in {"timer", "stopping"} => InRange(runPageTime)

\* C15: whenever processing is true, and when a load has just been
\* accepted, the prior results are cleared: pages is empty, videoUrl is null,
\* currentPage is 0 and no page image is on the drawing surface.
C15_ProcessingShowsNoPriorResults ==
    (processing \/ (lastOp = "handleFileUpload" /\ IsValidPdf(lastFile))) =>
        /\ pages = << >>
        /\ videoUrl = NullUrl
        /\ currentPage = 0
        /\ canvasShown = NoImage

C15_Witness ==
    /\ processing
    /\ lastOp = "handleFileUpload"
    /\ completedRuns = 0
    /\ runCount > 0
    /\ cursorTrace # << >>
    /\ mediaRecorderRef = "inactive"

\* e.data.size > 0
NonEmpty(fragment) == fragment.size > 0

\* C16: the artifact of a run is the concatenation, in arrival order, of
\* exactly the non-empty fragments its own recorder emitted: no fragment of
\* an earlier run, none lost, none reordered.
C16_ArtifactIsOwnFragments ==
    ArtifactOfLatestRun =>
        /\ videoUrl.blob = SelectSeq(emitted, NonEmpty)
        /\ \A k \in 1..Len(videoUrl.blob) : videoUrl.blob[k].run = videoUrl.run

C16_Witness ==
    /\ ArtifactOfLatestRun
    /\ runCount = MaxRuns
    /\ completedRuns = MaxRuns
    /\ Len(videoUrl.blob) = 1

\* C17: once every pending image load has completed the drawing surface
\* shows the image at the cursor; a load started for an earlier cursor value
\* never overwrites the image of a newer one.
C17_SurfaceShowsCursorPage ==
    (pendingLoads = {} /\ CanvasMounted(pages) /\ currentPage < Len(pages)) =>
        canvasShown = pages[currentPage + 1]

\* The places of the character c in s.
Places(s, c) == {i \in 1..Len(s) : s[i] = c}

\* A name without its final extension.
WithoutFinalExtension(s) ==
    IF Places(s, ".") = {}
    THEN s
    ELSE SubSeq(s, 1, (CHOOSE i \in Places(s, ".") :
                          \A j \in Places(s, ".") : j <= i) - 1)

\* C18: the download name is the name of the loaded file without its final
\* extension, followed by "_video.webm", also when the name contains ".pdf"
\* before the extension or writes the extension in another case.
C18_DownloadNameDropsExtension ==
    lastOp = "downloadVideo" =>
        download = WithoutFinalExtension(pdfFile.name) \o VideoSuffix

\* C19: processing and recording are never both true.
C19_NeverProcessingAndRecording == ~(processing /\ recording)

C19_Witness ==
    /\ processing
    /\ ~recording
    /\ loadPc = "renderPage"
    /\ runCount = MaxRuns
    /\ mediaRecorderRef = "inactive"

\* C20: whenever videoUrl is non-null, pdfFile is non-null and the page
\* sequence is non-empty and is the sequence of the pages of pdfFile.
C20_ArtifactBelongsToLoadedFile ==
    videoUrl # NullUrl =>
        /\ pdfFile # NoFile
        /\ Len(pages) > 0
        /\ pages = [k \in 1..pdfFile.numPages |-> Rasterize(pdfFile, k)]

C20_Witness ==
    /\ videoUrl # NullUrl
    /\ lastOp = "downloadVideo"
    /\ pdfFile.name # <<"a", ".", "p", "d", "f">>
    /\ Len(pages) = MaxPages
    /\ runCount = MaxRuns
    /\ completedRuns = 1

====
